---- MODULE Spec2Model ----
(***************************************************************************)
(* A model of the Request class of turbohttp-server                        *)
(* (src/server/request): cookie parsing, cookie signing, lazy body         *)
(* accumulation over the Readable stream, the middleware chain, and the    *)
(* client and proxy address.                                               *)
(*                                                                         *)
(* Four specifications share the module, one per part of the class:        *)
(*   CookieSpec  the pure cookie functions, applied to bounded inputs      *)
(*   Spec        the body accumulator against the stream's events          *)
(*   ChainSpec   use() / executeMiddlewares()                              *)
(*   IpSpec      getClientIp() / getProxyIp(), applied to bounded inputs   *)
(* Each leaves the other parts' variables unchanged.                       *)
(***************************************************************************)
EXTENDS Integers, Sequences, FiniteSets, TLC

VARIABLES
    \* ---- cookie functions (CookieSpec)
    cop,            \* the cookie operation last performed on the Request
    cookieHeader,   \* headers['cookie'] handed to the constructor
    cookies,        \* Request.#cookies
    value,          \* signCookie's value argument
    secret,         \* signCookie's secret argument
    signedValue,    \* signCookie's result, or unsignCookie's argument
    unsignSecret,   \* unsignCookie's secret argument
    unsigned,       \* unsignCookie's result
    \* ---- body accumulator (Spec)
    body,           \* Request.#body
    pushed,         \* every chunk the transport pushed, in arrival order
    buffered,       \* chunks the stream holds until it flows
    flowing,        \* "paused", "scheduled" (resume on next tick), "flowing"
    ended,          \* the transport pushed end-of-stream
    endEmitted,     \* 'end' was emitted
    destroyed,      \* 'error' was emitted; the stream emits nothing more
    streamError,    \* the error the stream signalled
    listeners,      \* the #getRawBody calls whose listeners are attached
    calls,          \* the body-parse calls issued, in order
    microtasks,     \* continuations of settled promises, first in first out
    writes,         \* how many times #body was assigned
    \* ---- middleware chain (ChainSpec)
    middlewares,    \* Request.#middlewares: what each registered handler does
    mwState,        \* per handler: "idle", "running", "awaiting", "resolved", "rejected"
    mwErr,          \* per handler: the error its promise rejected with (0: none)
    started,        \* the handlers started, in the order they started
    headers,        \* the handlers whose mutation the shared Request carries
    terminalRuns,   \* how many times the terminal ran
    terminalSaw,    \* the mutations the terminal found on the Request
    chain,          \* executeMiddlewares: "unused", "pending", "resolved", "rejected"
    chainErr,       \* the error executeMiddlewares rejected with (0: none)
    \* --- client and proxy address ---
    ipOp,           \* "idle", "constructed"
    forwardedFor,   \* headers['x-forwarded-for']: absent, a string, a string array
    remoteAddress,  \* socket.remoteAddress: undefined or a string
    clientIp,       \* what getClientIp() returned (or that it threw)
    proxyIp         \* what getProxyIp() returned (or that it threw)

cookieVars == <<cop, cookieHeader, cookies, value, secret, signedValue,
                unsignSecret, unsigned>>

bodyVars == <<body, pushed, buffered, flowing, ended, endEmitted, destroyed,
              streamError, listeners, calls, microtasks, writes>>

chainVars == <<middlewares, mwState, mwErr, started, headers, terminalRuns,
               terminalSaw, chain, chainErr>>

ipVars == <<ipOp, forwardedFor, remoteAddress, clientIp, proxyIp>>

vars == <<cookieVars, bodyVars, chainVars, ipVars>>

(***************************************************************************)
(* Strings are sequences of characters.  A character is a 1-tuple <<c>>;   *)
(* the hex digest of an HMAC is one opaque character <<secret, message>>   *)
(* (see createHmac).                                                       *)
(***************************************************************************)
Ch(c) == <<c>>

Str(s) == [i \in 1..Len(s) |-> Ch(s[i])]

Min(S) == CHOOSE x \in S : \A y \in S : x <= y

\* Sequences over alphabet A of length at most n.
StringsUpTo(A, n) == UNION {[1..k -> A] : k \in 0..n}

\* String.prototype.split(sep) for a one-character separator: the segments
\* between all occurrences of sep, one more than there are occurrences.
RECURSIVE Split(_, _)
Split(s, sep) ==
    LET at == {i \in 1..Len(s) : s[i] = sep}
    IN  IF at = {} THEN <<s>>
        ELSE <<SubSeq(s, 1, Min(at) - 1)>>
                 \o Split(SubSeq(s, Min(at) + 1, Len(s)), sep)

\* Array.prototype.join(sep)
RECURSIVE Join(_, _)
Join(parts, sep) ==
    IF Len(parts) = 0 THEN <<>>
    ELSE IF Len(parts) = 1 THEN parts[1]
    ELSE parts[1] \o <<sep>> \o Join(Tail(parts), sep)

IsSpace(c) == c = Ch(" ")

\* String.prototype.trim()
RECURSIVE Trim(_)
Trim(s) ==
    IF Len(s) = 0 THEN s
    ELSE IF IsSpace(s[1]) THEN Trim(Tail(s))
    ELSE IF IsSpace(s[Len(s)]) THEN Trim(SubSeq(s, 1, Len(s) - 1))
    ELSE s

\* String.prototype.slice(n)
Slice(s, n) == SubSeq(s, n + 1, Len(s))

(***************************************************************************)
(* A Record<string, string> is the set of its <<name, value>> entries.     *)
(***************************************************************************)
EmptyRecord == {}

\* cookies[name] = v
SetKey(rec, name, v) == {e \in rec : e[1] # name} \cup {<<name, v>>}

(***************************************************************************)
(* Request.#parseCookies                                                   *)
(***************************************************************************)
RECURSIVE ReqParsePairs(_, _)
ReqParsePairs(pairs, acc) ==
    IF Len(pairs) = 0 THEN acc
    ELSE LET parts == Split(Trim(pairs[1]), Ch("="))
             name  == parts[1]
             rest  == Tail(parts)
         IN  ReqParsePairs(Tail(pairs),
                 IF name # <<>> /\ Len(rest) > 0
                 THEN SetKey(acc, name, Join(rest, Ch("=")))
                 ELSE acc)

ReqParseCookies(header) ==
    IF header = <<>> THEN EmptyRecord
    ELSE ReqParsePairs(Split(header, Ch(";")), EmptyRecord)

(***************************************************************************)
(* parseCookies (src/utils/parseCookies.ts)                                *)
(***************************************************************************)
RECURSIVE UtilParsePairs(_, _)
UtilParsePairs(pairs, acc) ==
    IF Len(pairs) = 0 THEN acc
    ELSE LET parts == Split(pairs[1], Ch("="))
             name  == Trim(parts[1])
             \* destructuring takes the second element; it is undefined, and
             \* falsy like the empty string, when split gave one segment
             val   == IF Len(parts) >= 2 THEN Trim(parts[2]) ELSE <<>>
         IN  UtilParsePairs(Tail(pairs),
                 IF name # <<>> /\ val # <<>>
                 THEN SetKey(acc, name, val)
                 ELSE acc)

parseCookies(header) == UtilParsePairs(Split(header, Ch(";")), EmptyRecord)

(***************************************************************************)
(* signCookie / unsignCookie                                               *)
(***************************************************************************)
\* The values a call returns or throws: a string, false, or a thrown error.
StrVal(s) == [t |-> "string", s |-> s]
FalseVal  == [t |-> "false", s |-> <<>>]
Thrown    == [t |-> "throw", s |-> <<>>]
NoVal     == [t |-> "none", s |-> <<>>]

\* Request.#createHmac: the hex digest of HMAC-SHA256.  The digest is taken
\* as collision-free: one opaque character that names the secret and the
\* message, is no '.', and differs for different secrets or messages.
createHmac(k, v) == << <<k, v>> >>

\* signCookie with the "s:" prefix left out
signCookieNoPrefix(v, k) == v \o <<Ch(".")>> \o createHmac(k, v)

signCookie(v, k) == Str(<<"s", ":">>) \o v \o <<Ch(".")>> \o createHmac(k, v)

unsignCookie(x, k) ==
    LET parts == Split(Slice(x, 2), Ch("."))
    IN  \* Hmac.update(undefined) would throw; split gives a first segment
        IF Len(parts) = 0 THEN Thrown
        \* [value, hmac]: hmac is undefined when split gave one segment
        ELSE IF Len(parts) >= 2 /\ createHmac(k, parts[1]) = parts[2]
             THEN StrVal(parts[1])
             ELSE FalseVal

(***************************************************************************)
(* The inputs of the cookie functions.                                     *)
(***************************************************************************)
MaxHeaderLen == 5
MaxValueLen  == 3
MaxSignedLen == 5

Secrets == {"k1", "k2"}

HeaderChars == {Ch("a"), Ch("="), Ch(";"), Ch(" ")}
Headers == StringsUpTo(HeaderChars, MaxHeaderLen)

\* Hex text that is the digest of a short message under some secret.
DigestChars == {createHmac(k, Str(<<"a">>))[1] : k \in Secrets}

ValueChars == {Ch("a"), Ch(".")} \cup DigestChars
Values == StringsUpTo(ValueChars, MaxValueLen)

\* Any text; a digest is 64 characters, so none starts in the first two.
SignedChars == {Ch("s"), Ch(":"), Ch("."), Ch("a")} \cup DigestChars
SignedInputs ==
    {x \in StringsUpTo(SignedChars, MaxSignedLen) :
        \A i \in 1..Len(x) : i <= 2 => x[i] \notin DigestChars}

(***************************************************************************)
(* CookieSpec: one cookie operation on a fresh Request at a time.          *)
(***************************************************************************)
CookieFresh ==
    /\ cop = "idle"
    /\ cookieHeader = <<>>
    /\ cookies = EmptyRecord
    /\ value = <<>>
    /\ secret = ""
    /\ signedValue = <<>>
    /\ unsignSecret = ""
    /\ unsigned = NoVal

\* new Request(raw) of src/server/request.ts: #cookies from #parseCookies
Construct ==
    /\ cop = "idle"
    /\ \E h \in Headers :
        /\ cookieHeader' = h
        /\ cookies' = ReqParseCookies(h)
    /\ cop' = "constructed"
    /\ UNCHANGED <<value, secret, signedValue, unsignSecret, unsigned>>
    /\ UNCHANGED <<bodyVars, chainVars, ipVars>>

\* new Request(raw) of src/server/request/request.ts: #cookies from the
\* parseCookies utility
ConstructUtil ==
    /\ cop = "idle"
    /\ \E h \in Headers :
        /\ cookieHeader' = h
        /\ cookies' = parseCookies(h)
    /\ cop' = "constructedUtil"
    /\ UNCHANGED <<value, secret, signedValue, unsignSecret, unsigned>>
    /\ UNCHANGED <<bodyVars, chainVars, ipVars>>

\* request.signCookie(v, k)
SignCookie ==
    /\ cop = "idle"
    /\ \E v \in Values, k \in Secrets :
        /\ value' = v
        /\ secret' = k
        /\ signedValue' = signCookie(v, k)
    /\ cop' = "signed"
    /\ UNCHANGED <<cookieHeader, cookies, unsignSecret, unsigned>>
    /\ UNCHANGED <<bodyVars, chainVars, ipVars>>

\* request.unsignCookie(signed, k) on what signCookie returned
UnsignSigned ==
    /\ cop = "signed"
    /\ \E k \in Secrets :
        /\ unsignSecret' = k
        /\ unsigned' = unsignCookie(signedValue, k)
    /\ cop' = "roundtrip"
    /\ UNCHANGED <<cookieHeader, cookies, value, secret, signedValue>>
    /\ UNCHANGED <<bodyVars, chainVars, ipVars>>

\* request.unsignCookie(x, k) on any text
UnsignCookie ==
    /\ cop = "idle"
    /\ \E x \in SignedInputs, k \in Secrets :
        /\ signedValue' = x
        /\ unsignSecret' = k
        /\ unsigned' = unsignCookie(x, k)
    /\ cop' = "unsigned"
    /\ UNCHANGED <<cookieHeader, cookies, value, secret>>
    /\ UNCHANGED <<bodyVars, chainVars, ipVars>>

\* The Request is discarded when its request/response cycle ends.
Discard ==
    /\ cop # "idle"
    /\ cop' = "idle"
    /\ cookieHeader' = <<>>
    /\ cookies' = EmptyRecord
    /\ value' = <<>>
    /\ secret' = ""
    /\ signedValue' = <<>>
    /\ unsignSecret' = ""
    /\ unsigned' = NoVal
    /\ UNCHANGED <<bodyVars, chainVars, ipVars>>

CookieNext ==
    \/ Construct
    \/ ConstructUtil
    \/ SignCookie
    \/ UnsignSigned
    \/ UnsignCookie
    \/ Discard


(***************************************************************************)
(* The body accumulator: parseBodyAsBuffer, parseBodyAsJson,               *)
(* parseBodyAsUrlEncoded and #getRawBody over the inherited Readable.      *)
(*                                                                         *)
(* The stream is the transport's: it holds the chunks pushed until a       *)
(* 'data' listener makes it flow (on the next tick), emits each chunk once *)
(* to the listeners attached at that moment, emits 'end' once after the    *)
(* last chunk, or 'error' once, and nothing after either.                  *)
(*                                                                         *)
(* JavaScript runs to completion: the continuations of settled promises    *)
(* run first in, first out, and before any further stream event or any     *)
(* further call, so every other step waits for microtasks to be empty.     *)
(***************************************************************************)
MaxCalls  == 3
MaxChunks == 2

\* Bytes are character codes: "1" and "x".  The transport delivers chunks of
\* one or two bytes.
Bytes == {49, 120}
Chunks == {<<49>>, <<120, 49>>}
Errors == {"E1", "E2"}
Kinds == {"buffer", "json", "urlencoded"}

\* #body: Buffer | null
NullBody == [isNull |-> TRUE, bytes |-> <<>>]
Buffer(b) == [isNull |-> FALSE, bytes |-> b]

\* Buffer.concat(chunks)
RECURSIVE Concat(_)
Concat(cs) == IF Len(cs) = 0 THEN <<>> ELSE cs[1] \o Concat(Tail(cs))

\* The test `if (this.#body)` with an empty Buffer taken as falsy
BodyCachedNonEmpty(b) == ~b.isNull /\ Len(b.bytes) > 0

\* The test `if (this.#body)` of parseBodyAsBuffer: a Buffer is an object
\* and truthy whatever its length, null is falsy.
BodyCached(b) == ~b.isNull

\* buffer.toString(): the text of ASCII bytes
Utf8Decode(b) == [i \in 1..Len(b) |-> IF b[i] = 49 THEN Ch("1") ELSE Ch("x")]

\* JSON.parse on the texts over "1" and "x": the numbers 1, 11, ... parse,
\* every other text (the empty one too) is a SyntaxError.
IsJsonText(t) == Len(t) > 0 /\ \A i \in 1..Len(t) : t[i] = Ch("1")

\* querystring.parse on the texts over "1" and "x" (no '=' and no '&'):
\* the empty text gives {}, any other text one key with an empty value.
ParseQuery(t) == IF t = <<>> THEN EmptyRecord ELSE {<<t, <<>>>>}

NoParse == [t |-> "none", json |-> <<>>, form |-> EmptyRecord]

\* A call as issued: its #getRawBody promise's chunks, the buffer its
\* parseBodyAsBuffer returned, the error it rejected with.
NewCall(kind, st) ==
    [kind |-> kind, state |-> st, chunks |-> <<>>, got |-> FALSE,
     buffer |-> <<>>, err |-> "", cached |-> FALSE, parsed |-> NoParse,
     afterResolved |-> \E i \in 1..Len(calls) : calls[i].got,
     afterError |-> destroyed]

ListenerSet == {listeners[i] : i \in 1..Len(listeners)}

\* this.on('data', chunk => chunks.push(Buffer.from(chunk))) of every
\* attached #getRawBody, for the chunks cs in order
Deliver(cl, cs) ==
    [i \in 1..Len(cl) |->
        IF i \in ListenerSet THEN [cl[i] EXCEPT !.chunks = @ \o cs] ELSE cl[i]]

\* The listeners whose promise is still pending, in the order attached.
PendingListeners == SelectSeq(listeners, LAMBDA c : calls[c].state = "reading")

BodyFresh ==
    /\ body = NullBody
    /\ pushed = <<>>
    /\ buffered = <<>>
    /\ flowing = "paused"
    /\ ended = FALSE
    /\ endEmitted = FALSE
    /\ destroyed = FALSE
    /\ streamError = ""
    /\ listeners = <<>>
    /\ calls = <<>>
    /\ microtasks = <<>>
    /\ writes = 0

\* The continuation of parseBodyAsJson / parseBodyAsUrlEncoded after its
\* `await this.parseBodyAsBuffer()`
ParseTask(c) == [call |-> c, step |-> "parse", ok |-> TRUE, bytes |-> <<>>, err |-> ""]

\* parseBodyAsBuffer() up to its first suspension, called directly or as the
\* first statement of parseBodyAsJson() / parseBodyAsUrlEncoded().
ParseCall ==
    /\ microtasks = <<>>
    /\ Len(calls) < MaxCalls
    /\ \E kind \in Kinds :
        LET c == Len(calls) + 1 IN
        IF BodyCached(body)
        THEN \* return this.#body
             /\ calls' = Append(calls,
                    [NewCall(kind, IF kind = "buffer" THEN "resolved" ELSE "parsing")
                        EXCEPT !.got = TRUE, !.buffer = body.bytes, !.cached = TRUE])
             /\ microtasks' = IF kind = "buffer" THEN microtasks
                              ELSE Append(microtasks, ParseTask(c))
             /\ UNCHANGED <<listeners, flowing>>
        ELSE \* await this.#getRawBody(): attach data, end and error listeners;
             \* the first 'data' listener schedules the stream to flow
             /\ calls' = Append(calls, NewCall(kind, "reading"))
             /\ listeners' = Append(listeners, c)
             /\ flowing' = IF flowing = "paused" /\ ~destroyed THEN "scheduled" ELSE flowing
             /\ UNCHANGED microtasks
    /\ UNCHANGED <<body, pushed, buffered, ended, endEmitted, destroyed,
                   streamError, writes>>
    /\ UNCHANGED <<cookieVars, chainVars, ipVars>>

\* The transport pushes a chunk: emitted at once to the attached listeners
\* when the stream flows, held otherwise.
Push ==
    /\ microtasks = <<>>
    /\ ~ended /\ ~destroyed
    /\ Len(pushed) < MaxChunks
    /\ \E chunk \in Chunks :
        /\ pushed' = Append(pushed, chunk)
        /\ IF flowing = "flowing"
           THEN calls' = Deliver(calls, <<chunk>>) /\ UNCHANGED buffered
           ELSE buffered' = Append(buffered, chunk) /\ UNCHANGED calls
    /\ UNCHANGED <<body, flowing, ended, endEmitted, destroyed, streamError,
                   listeners, microtasks, writes>>
    /\ UNCHANGED <<cookieVars, chainVars, ipVars>>

\* The transport pushes end-of-stream (push(null)).
PushEnd ==
    /\ microtasks = <<>>
    /\ ~ended /\ ~destroyed
    /\ ended' = TRUE
    /\ UNCHANGED <<body, pushed, buffered, flowing, endEmitted, destroyed,
                   streamError, listeners, calls, microtasks, writes>>
    /\ UNCHANGED <<cookieVars, chainVars, ipVars>>

\* The scheduled resume: the stream starts to flow and emits what it held.
Flow ==
    /\ microtasks = <<>>
    /\ flowing = "scheduled" /\ ~destroyed
    /\ flowing' = "flowing"
    /\ calls' = Deliver(calls, buffered)
    /\ buffered' = <<>>
    /\ UNCHANGED <<body, pushed, ended, endEmitted, destroyed, streamError,
                   listeners, microtasks, writes>>
    /\ UNCHANGED <<cookieVars, chainVars, ipVars>>

\* The continuations of the #getRawBody promises that settle() settles, in
\* the order the listeners were attached.
Settled(ok, e) ==
    [i \in 1..Len(PendingListeners) |->
        [call |-> PendingListeners[i], step |-> "body", ok |-> ok,
         bytes |-> IF ok THEN Concat(calls[PendingListeners[i]].chunks) ELSE <<>>,
         err |-> e]]

MarkSettled(cl) ==
    [i \in 1..Len(cl) |->
        IF i \in ListenerSet /\ cl[i].state = "reading"
        THEN [cl[i] EXCEPT !.state = "settled"] ELSE cl[i]]

\* 'end': this.on('end', () => resolve(Buffer.concat(chunks)))
EmitEnd ==
    /\ microtasks = <<>>
    /\ ended /\ flowing = "flowing" /\ buffered = <<>>
    /\ ~endEmitted /\ ~destroyed
    /\ endEmitted' = TRUE
    /\ microtasks' = Settled(TRUE, "")
    /\ calls' = MarkSettled(calls)
    /\ UNCHANGED <<body, pushed, buffered, flowing, ended, destroyed,
                   streamError, listeners, writes>>
    /\ UNCHANGED <<cookieVars, chainVars, ipVars>>

\* 'error' before 'end': this.on('error', reject).  The stream is destroyed
\* and emits nothing afterwards.  (An 'error' nobody listens to is an
\* uncaught exception of the process, and is left out.)
StreamError ==
    /\ microtasks = <<>>
    /\ ~endEmitted /\ ~destroyed
    /\ listeners # <<>>
    /\ \E e \in Errors :
        /\ streamError' = e
        /\ microtasks' = Settled(FALSE, e)
    /\ destroyed' = TRUE
    /\ calls' = MarkSettled(calls)
    /\ UNCHANGED <<body, pushed, buffered, flowing, ended, endEmitted,
                   listeners, writes>>
    /\ UNCHANGED <<cookieVars, chainVars, ipVars>>

\* JSON.parse(buffer.toString()) / parseQuery(buffer.toString()) of a call
\* whose parseBodyAsBuffer() gave it buffer b
Decode(call) ==
    LET text == Utf8Decode(call.buffer) IN
    IF call.err # "" THEN [call EXCEPT !.state = "rejected"]
    ELSE IF call.kind = "json"
    THEN IF IsJsonText(text)
         THEN [call EXCEPT !.state = "resolved",
                           !.parsed = [NoParse EXCEPT !.t = "json", !.json = text]]
         ELSE [call EXCEPT !.state = "rejected", !.err = "SyntaxError"]
    ELSE [call EXCEPT !.state = "resolved",
                      !.parsed = [NoParse EXCEPT !.t = "form", !.form = ParseQuery(text)]]

\* The oldest continuation runs.
\*   step "body":  this.#body = <what #getRawBody resolved with>; return this.#body
\*                 (or the rejection thrown out of parseBodyAsBuffer)
\*   step "parse": the rest of parseBodyAsJson / parseBodyAsUrlEncoded
RunMicrotask ==
    /\ microtasks # <<>>
    /\ LET m == Head(microtasks)
           c == m.call
           direct == calls[c].kind = "buffer"
       IN  IF m.step = "body"
           THEN /\ IF m.ok
                   THEN /\ body' = Buffer(m.bytes)
                        /\ writes' = writes + 1
                        /\ calls' = [calls EXCEPT ![c] =
                               [@ EXCEPT !.got = TRUE, !.buffer = m.bytes,
                                         !.state = IF direct THEN "resolved" ELSE "parsing"]]
                   ELSE /\ calls' = [calls EXCEPT ![c] =
                               [@ EXCEPT !.err = m.err,
                                         !.state = IF direct THEN "rejected" ELSE "parsing"]]
                        /\ UNCHANGED <<body, writes>>
                /\ microtasks' = IF direct THEN Tail(microtasks)
                                 ELSE Append(Tail(microtasks), ParseTask(c))
           ELSE /\ calls' = [calls EXCEPT ![c] = Decode(@)]
                /\ microtasks' = Tail(microtasks)
                /\ UNCHANGED <<body, writes>>
    /\ UNCHANGED <<pushed, buffered, flowing, ended, endEmitted, destroyed,
                   streamError, listeners>>
    /\ UNCHANGED <<cookieVars, chainVars, ipVars>>

BodyNext ==
    \/ ParseCall
    \/ Push
    \/ PushEnd
    \/ Flow
    \/ EmitEnd
    \/ StreamError
    \/ RunMicrotask

(***************************************************************************)
(* The middleware chain: use() and executeMiddlewares(terminal).           *)
(*                                                                         *)
(* A handler is modelled by what it does with its continuation:            *)
(*   "next"       mutates the Request, awaits next(), returns              *)
(*   "halt"       mutates the Request, returns without calling next()      *)
(*   "throw"      mutates the Request, throws before calling next()        *)
(*   "nextThrow"  mutates the Request, awaits next(), then throws          *)
(*   "nextCatch"  mutates the Request, awaits next() and swallows its      *)
(*                failure, returns                                         *)
(* The error handler i throws is the number i.                             *)
(***************************************************************************)
MaxMiddlewares == 3

Behaviours == {"next", "halt", "throw", "nextThrow", "nextCatch"}
CallsNext(b) == b \in {"next", "nextThrow", "nextCatch"}

ChainFresh ==
    /\ middlewares = <<>>
    /\ mwState = <<>>
    /\ mwErr = <<>>
    /\ started = <<>>
    /\ headers = {}
    /\ terminalRuns = 0
    /\ terminalSaw = {}
    /\ chain = "unused"
    /\ chainErr = 0

\* use(middleware): append to #middlewares
Use ==
    /\ chain = "unused"
    /\ Len(middlewares) < MaxMiddlewares
    /\ \E b \in Behaviours : middlewares' = Append(middlewares, b)
    /\ mwState' = Append(mwState, "idle")
    /\ mwErr' = Append(mwErr, 0)
    /\ UNCHANGED <<started, headers, terminalRuns, terminalSaw, chain, chainErr>>
    /\ UNCHANGED <<cookieVars, bodyVars, ipVars>>

\* Dispatch with the bound on i off by one: the last handler is passed over
DispatchOffByOne(i, hs) ==
    IF i < Len(middlewares)
    THEN /\ mwState' = [j \in 1..Len(mwState) |->
                            IF j = i THEN "running"
                            ELSE IF j = i - 1 THEN "awaiting"
                            ELSE mwState[j]]
         /\ started' = Append(started, i)
         /\ UNCHANGED <<terminalRuns, terminalSaw>>
    ELSE /\ terminalRuns' = terminalRuns + 1
         /\ terminalSaw' = hs
         /\ mwState' = [j \in 1..Len(mwState) |->
                            IF j = i - 1 THEN "awaiting" ELSE mwState[j]]
         /\ UNCHANGED started

\* What the chain does when the continuation of handler i - 1 is invoked
\* (i = 1: when executeMiddlewares is called): handler i starts, handler
\* i - 1 now awaiting it; past the last handler the terminal runs, on the
\* Request as it is then (hs: the mutations it carries).
Dispatch(i, hs) ==
    IF i <= Len(middlewares)
    THEN /\ mwState' = [j \in 1..Len(mwState) |->
                            IF j = i THEN "running"
                            ELSE IF j = i - 1 THEN "awaiting"
                            ELSE mwState[j]]
         /\ started' = Append(started, i)
         /\ UNCHANGED <<terminalRuns, terminalSaw>>
    ELSE /\ terminalRuns' = terminalRuns + 1
         /\ terminalSaw' = hs
         /\ mwState' = [j \in 1..Len(mwState) |->
                            IF j = i - 1 THEN "awaiting" ELSE mwState[j]]
         /\ UNCHANGED started

\* Return with the chain going on to the next handler all the same
ReturnAdvancing(i) ==
    /\ mwErr' = [mwErr EXCEPT ![i] = IF middlewares[i] = "throw" THEN i ELSE 0]
    /\ IF i + 1 <= Len(middlewares)
       THEN /\ mwState' = [j \in 1..Len(mwState) |->
                    IF j = i THEN (IF middlewares[i] = "throw" THEN "rejected" ELSE "resolved")
                    ELSE IF j = i + 1 THEN "running"
                    ELSE mwState[j]]
            /\ started' = Append(started, i + 1)
            /\ UNCHANGED <<terminalRuns, terminalSaw>>
       ELSE /\ mwState' = [mwState EXCEPT ![i] =
                    IF middlewares[i] = "throw" THEN "rejected" ELSE "resolved"]
            /\ terminalRuns' = terminalRuns + 1
            /\ terminalSaw' = headers \cup {i}
            /\ UNCHANGED started

\* Handler i returns or throws without having invoked its continuation: its
\* promise settles and the chain goes no further.
Return(i) ==
    /\ mwState' = [mwState EXCEPT ![i] =
            IF middlewares[i] = "throw" THEN "rejected" ELSE "resolved"]
    /\ mwErr' = [mwErr EXCEPT ![i] = IF middlewares[i] = "throw" THEN i ELSE 0]
    /\ UNCHANGED <<started, terminalRuns, terminalSaw>>

\* executeMiddlewares(terminal): the chain starts at the first handler.
ExecuteMiddlewares ==
    /\ chain = "unused"
    /\ chain' = "pending"
    /\ Dispatch(1, headers)
    /\ UNCHANGED <<middlewares, mwErr, headers, chainErr>>
    /\ UNCHANGED <<cookieVars, bodyVars, ipVars>>

\* Handler i runs from its start to its first suspension or its return.
RunMiddleware ==
    \E i \in 1..Len(middlewares) :
        /\ mwState[i] = "running"
        /\ headers' = headers \cup {i}
        /\ IF CallsNext(middlewares[i])
           THEN Dispatch(i + 1, headers \cup {i}) /\ UNCHANGED mwErr
           ELSE Return(i)
        /\ UNCHANGED <<middlewares, chain, chainErr>>
    /\ UNCHANGED <<cookieVars, bodyVars, ipVars>>

\* The promise the continuation of handler i returned (handler i + 1's, or
\* the terminal's), for i = 0 the one executeMiddlewares awaits.
ContSettled(i) ==
    IF i + 1 <= Len(middlewares)
    THEN mwState[i + 1] \in {"resolved", "rejected"}
    ELSE terminalRuns > 0

ContErr(i) == IF i + 1 <= Len(middlewares) THEN mwErr[i + 1] ELSE 0

\* AwaitOutcome with the continuation's failure wrapped in a new error
AwaitOutcomeWrapping(i) ==
    IF ContErr(i) # 0 /\ middlewares[i] # "nextCatch" THEN i
    ELSE IF middlewares[i] = "nextThrow" THEN i
    ELSE 0

\* The error handler i's promise rejects with once its `await next()` has
\* settled (0: it resolves): the continuation's failure as it is, unless the
\* handler catches it; else the handler's own, if it throws afterwards.
AwaitOutcome(i) ==
    IF ContErr(i) # 0 /\ middlewares[i] # "nextCatch" THEN ContErr(i)
    ELSE IF middlewares[i] = "nextThrow" THEN i
    ELSE 0

\* Handler i resumes after `await next()`.
ResumeMiddleware ==
    \E i \in 1..Len(middlewares) :
        /\ mwState[i] = "awaiting"
        /\ ContSettled(i)
        /\ LET e == AwaitOutcome(i)
           IN  /\ mwErr' = [mwErr EXCEPT ![i] = e]
               /\ mwState' = [mwState EXCEPT ![i] = IF e # 0 THEN "rejected" ELSE "resolved"]
        /\ UNCHANGED <<middlewares, started, headers, terminalRuns, terminalSaw,
                       chain, chainErr>>
    /\ UNCHANGED <<cookieVars, bodyVars, ipVars>>

\* executeMiddlewares settles as the first handler's promise did.
SettleChain ==
    /\ chain = "pending"
    /\ ContSettled(0)
    /\ chainErr' = ContErr(0)
    /\ chain' = IF ContErr(0) # 0 THEN "rejected" ELSE "resolved"
    /\ UNCHANGED <<middlewares, mwState, mwErr, started, headers, terminalRuns,
                   terminalSaw>>
    /\ UNCHANGED <<cookieVars, bodyVars, ipVars>>

ChainNext ==
    \/ Use
    \/ ExecuteMiddlewares
    \/ RunMiddleware
    \/ ResumeMiddleware
    \/ SettleChain

(***************************************************************************)
(* Client and proxy address: getClientIp() and getProxyIp() read the       *)
(* x-forwarded-for header and the socket's remote address the Request was  *)
(* constructed with.                                                       *)
(***************************************************************************)
MaxForwardedLen == 3

\* A header value (string | string[] | undefined) and a remote address
\* (string | undefined).
AbsentHeader    == [t |-> "absent", s |-> <<>>, a |-> <<>>]
StringHeader(s) == [t |-> "string", s |-> s, a |-> <<>>]
ArrayHeader(a)  == [t |-> "array", s |-> <<>>, a |-> a]
NoAddress       == [t |-> "undefined", s |-> <<>>]
Address(s)      == [t |-> "string", s |-> s]

ForwardedChars   == {Ch("1"), Ch(","), Ch(" ")}
ForwardedStrings == StringsUpTo(ForwardedChars, MaxForwardedLen)
ForwardedHeaders ==
    {AbsentHeader}
        \cup {StringHeader(s) : s \in ForwardedStrings}
        \cup {ArrayHeader(<<>>)}
        \cup {ArrayHeader(<<s>>) : s \in ForwardedStrings}
        \cup {ArrayHeader(<<s, Str(<<"2">>)>>) : s \in ForwardedStrings}
RemoteAddresses == {NoAddress, Address(<<>>), Address(Str(<<"9">>))}

\* The condition of `header ? ... : ...`: undefined and '' are falsy, a
\* non-empty string and every array (the empty one too) are truthy.
Truthy(h) == h.t = "array" \/ (h.t = "string" /\ h.s # <<>>)

\* socket.remoteAddress || ''
AddressOrEmpty(addr) == IF addr.t = "string" THEN addr.s ELSE <<>>

\* getClientIp(): the header is cast to string, not converted, so on an
\* array `.split` is undefined and the call throws a TypeError.
getClientIp(h, addr) ==
    IF Truthy(h)
    THEN IF h.t = "array" THEN Thrown
         ELSE StrVal(Trim(Split(h.s, Ch(","))[1]))
    ELSE StrVal(AddressOrEmpty(addr))

\* getProxyIp()
getProxyIp(h, addr) ==
    IF Truthy(h) THEN StrVal(AddressOrEmpty(addr)) ELSE StrVal(<<>>)

IpFresh ==
    /\ ipOp = "idle"
    /\ forwardedFor = AbsentHeader
    /\ remoteAddress = NoAddress
    /\ clientIp = NoVal
    /\ proxyIp = NoVal

\* new Request(rawRequest): keeps rawRequest.headers and rawRequest.socket.
ConstructWithSocket ==
    /\ ipOp = "idle"
    /\ \E h \in ForwardedHeaders, addr \in RemoteAddresses :
          /\ forwardedFor' = h
          /\ remoteAddress' = addr
    /\ ipOp' = "constructed"
    /\ UNCHANGED <<clientIp, proxyIp>>
    /\ UNCHANGED <<cookieVars, bodyVars, chainVars>>

GetClientIp ==
    /\ ipOp = "constructed"
    /\ clientIp = NoVal
    /\ clientIp' = getClientIp(forwardedFor, remoteAddress)
    /\ UNCHANGED <<ipOp, forwardedFor, remoteAddress, proxyIp>>
    /\ UNCHANGED <<cookieVars, bodyVars, chainVars>>

GetProxyIp ==
    /\ ipOp = "constructed"
    /\ proxyIp = NoVal
    /\ proxyIp' = getProxyIp(forwardedFor, remoteAddress)
    /\ UNCHANGED <<ipOp, forwardedFor, remoteAddress, clientIp>>
    /\ UNCHANGED <<cookieVars, bodyVars, chainVars>>

IpNext ==
    \/ ConstructWithSocket
    \/ GetClientIp
    \/ GetProxyIp

(***************************************************************************)
(* The specifications.                                                     *)
(***************************************************************************)
\* A Request as constructed.
Init == CookieFresh /\ BodyFresh /\ ChainFresh /\ IpFresh

Next == CookieNext \/ BodyNext \/ ChainNext \/ IpNext

\* The body accumulator against the stream.
Spec == Init /\ [][BodyNext]_vars

\* The cookie functions.
CookieSpec == Init /\ [][CookieNext]_vars

\* The middleware chain.
ChainSpec == Init /\ [][ChainNext]_vars

\* The address functions.
IpSpec == Init /\ [][IpNext]_vars

(***************************************************************************)
(* Properties of the middleware chain (ChainSpec).                         *)
(***************************************************************************)
Handlers == 1..Len(middlewares)
IsSettled(st) == st \in {"resolved", "rejected"}
AllCallNext == \A i \in Handlers : CallsNext(middlewares[i])
\* Handler i threw its own error.
Threw(i) == mwErr[i] = i
NoneAfter(i) == \A j \in Handlers : j > i => mwState[j] = "idle"

\* C1: with handlers that all invoke their continuation, handler i + 1
\* starts only once handler i has invoked its continuation, handlers start
\* in registration order and never two at a time, and the terminal runs
\* exactly once, after all handlers have started and with all their
\* mutations on the Request.
C1_ChainInOrder ==
    (chain # "unused" /\ AllCallNext) =>
        /\ started = [k \in 1..Len(started) |-> k]
        /\ \A i \in Handlers :
              (i > 1 /\ mwState[i] # "idle")
                  => mwState[i - 1] \in {"awaiting", "resolved", "rejected"}
        /\ Cardinality({i \in Handlers : mwState[i] = "running"}) <= 1
        /\ terminalRuns <= 1
        /\ terminalRuns = 1 =>
              /\ Len(started) = Len(middlewares)
              /\ \A i \in Handlers : mwState[i] \notin {"idle", "running"}
              /\ terminalSaw = Handlers
        /\ IsSettled(chain) => terminalRuns = 1

\* Two or more handlers ran in order and the terminal saw all their mutations.
C1_Witness ==
    /\ AllCallNext
    /\ Len(middlewares) >= 2
    /\ chain = "resolved"
    /\ terminalRuns = 1
    /\ terminalSaw = Handlers

Issued == 1..Len(calls)

\* C4: every call issued after a parseBodyAsBuffer() has resolved takes the
\* cached bytes, the same for all of them, and attaches no listener to the
\* stream, whatever the body, the empty one included.
C4_CachedAfterResolved ==
    \A c \in Issued :
        calls[c].afterResolved =>
            /\ calls[c].cached
            /\ c \notin ListenerSet
            /\ ~body.isNull
            /\ calls[c].got /\ calls[c].buffer = body.bytes

\* A later parseBodyAsJson / parseBodyAsUrlEncoded took the cached empty body.
C4_Witness ==
    \E c \in Issued :
        /\ calls[c].afterResolved
        /\ calls[c].kind # "buffer"
        /\ calls[c].cached
        /\ body = Buffer(<<>>)
        /\ \E d \in Issued : d < c /\ calls[d].kind = "buffer" /\ calls[d].state = "resolved"

\* C5: #body is written at most once and the stream is consumed by at most
\* one accumulation.
C5_BodyWrittenOnce ==
    /\ writes <= 1
    /\ Len(listeners) <= 1

\* C6: every parseBodyAsBuffer() that resolves returns the concatenation of
\* all chunks the stream delivered, in arrival order, and the cached body is
\* that same byte sequence.
C6_BufferIsWholeBody ==
    \A c \in Issued :
        (calls[c].kind = "buffer" /\ calls[c].state = "resolved") =>
            /\ calls[c].buffer = Concat(pushed)
            /\ body = Buffer(Concat(pushed))

\* C7: once the stream has signalled an error and every continuation has
\* run, the calls pending at that moment and the calls issued afterwards
\* have all rejected with that error.
C7_ErrorRejectsAll ==
    (destroyed /\ microtasks = <<>>) =>
        \A c \in Issued :
            /\ calls[c].state = "rejected"
            /\ calls[c].err = streamError

\* C7 for the calls pending when the stream signalled the error.
C7_PendingRejected ==
    (destroyed /\ microtasks = <<>>) =>
        \A c \in Issued :
            ~calls[c].afterError =>
                (calls[c].state = "rejected" /\ calls[c].err = streamError)

\* What parseBodyAsJson() settles with on the bytes b: the parsed value, or
\* a SyntaxError.
JsonOutcome(call, b) ==
    IF IsJsonText(Utf8Decode(b))
    THEN /\ call.state = "resolved"
         /\ call.parsed = [NoParse EXCEPT !.t = "json", !.json = Utf8Decode(b)]
    ELSE /\ call.state = "rejected"
         /\ call.err = "SyntaxError"

\* C12: once the stream has ended and every continuation has run, each
\* parseBodyAsJson() has rejected with a SyntaxError if the completed body is
\* not valid JSON, and has resolved to the parsed value if it is.
C12_JsonOfCompletedBody ==
    (endEmitted /\ microtasks = <<>>) =>
        \A c \in Issued :
            calls[c].kind = "json" => JsonOutcome(calls[c], Concat(pushed))

\* C12 for the bytes the call's own parseBodyAsBuffer() returned: the
\* SyntaxError is never swallowed nor turned into a value.
C12_JsonOfOwnBuffer ==
    \A c \in Issued :
        (calls[c].kind = "json" /\ calls[c].got /\ IsSettled(calls[c].state))
            => JsonOutcome(calls[c], calls[c].buffer)

(***************************************************************************)
(* Properties of the cookie functions.                                     *)
(***************************************************************************)
HasDot(s) == \E i \in 1..Len(s) : s[i] = Ch(".")

\* C8: for every secret and every value that contains no '.',
\* unsignCookie(signCookie(value, secret), secret) returns exactly value.
C8_SignUnsignRoundTrip ==
    (cop = "roundtrip" /\ unsignSecret = secret /\ ~HasDot(value))
        => unsigned = StrVal(value)

\* A value without '.' (the empty one included) came back from the round trip.
C8_Witness ==
    /\ cop = "roundtrip"
    /\ unsignSecret = secret
    /\ ~HasDot(value)
    /\ Len(value) = MaxValueLen
    /\ value[1] \in DigestChars
    /\ unsigned = StrVal(value)

\* The value and the hash a signed cookie embeds, as its format
\* s:<value>.<hex-hmac> defines them: the text after the two-character
\* prefix, cut at its first '.'.
EmbeddedValue(x) ==
    LET rem == Slice(x, 2)
        at  == {i \in 1..Len(rem) : rem[i] = Ch(".")}
    IN  IF at = {} THEN rem ELSE SubSeq(rem, 1, Min(at) - 1)

EmbeddedHash(x) ==
    LET rem == Slice(x, 2)
        at  == {i \in 1..Len(rem) : rem[i] = Ch(".")}
    IN  IF at = {} THEN StrVal(<<>>) ELSE StrVal(SubSeq(rem, Min(at) + 1, Len(rem)))

HasEmbeddedHash(x) == HasDot(Slice(x, 2))

\* C9: unsignCookie never throws, and returns false whenever the hash
\* embedded in signedValue is not the HMAC of the embedded value under the
\* secret, in particular whenever signedValue was signed under another secret.
C9_UnsignRejectsMismatch ==
    (cop \in {"unsigned", "roundtrip"}) =>
        /\ unsigned # Thrown
        /\ (~HasEmbeddedHash(signedValue)
              \/ EmbeddedHash(signedValue)
                    # StrVal(createHmac(unsignSecret, EmbeddedValue(signedValue))))
                => unsigned = FalseVal
        /\ (cop = "roundtrip" /\ unsignSecret # secret) => unsigned = FalseVal

\* C13: unsignCookie cuts the text after the first two characters at its
\* FIRST '.', everything after that '.' being the supplied hash, and returns
\* the value before it exactly when the supplied hash is the HMAC of the
\* value under the secret; otherwise (extra text after a valid hash included)
\* it returns false.
C13_SplitsAtFirstDot ==
    (cop \in {"unsigned", "roundtrip"}) =>
        unsigned =
            IF /\ HasEmbeddedHash(signedValue)
               /\ EmbeddedHash(signedValue)
                     = StrVal(createHmac(unsignSecret, EmbeddedValue(signedValue)))
            THEN StrVal(EmbeddedValue(signedValue))
            ELSE FalseVal

\* C13 for the texts with at most one '.' after the first two characters.
C13_SingleDot ==
    (Len(Split(Slice(signedValue, 2), Ch("."))) <= 2) => C13_SplitsAtFirstDot

\* The mapping the cookie header stands for: split on ';', each segment cut
\* at its first '=', name and value trimmed, segments with an empty name or
\* without '=' dropped.
RECURSIVE ExpectedPairs(_, _)
ExpectedPairs(segs, acc) ==
    IF Len(segs) = 0 THEN acc
    ELSE LET seg  == segs[1]
             at   == {i \in 1..Len(seg) : seg[i] = Ch("=")}
             name == Trim(SubSeq(seg, 1, Min(at) - 1))
             val  == Trim(SubSeq(seg, Min(at) + 1, Len(seg)))
         IN  ExpectedPairs(Tail(segs),
                 IF at # {} /\ name # <<>> THEN SetKey(acc, name, val) ELSE acc)

ExpectedCookies(header) == ExpectedPairs(Split(header, Ch(";")), EmptyRecord)

\* C10: the cookies of a Request, built by Request.#parseCookies or by the
\* parseCookies utility, are exactly the mapping the header stands for.
C10_CookiesAsSpecified ==
    (cop \in {"constructed", "constructedUtil"})
        => cookies = ExpectedCookies(cookieHeader)

\* C10 for each of the two parsers alone.
C10_RequestParser ==
    cop = "constructed" => cookies = ExpectedCookies(cookieHeader)

C10_UtilParser ==
    cop = "constructedUtil" => cookies = ExpectedCookies(cookieHeader)

(***************************************************************************)
(* Client and proxy address.                                               *)
(***************************************************************************)
\* The text of a header: a string as it is, an array with its elements
\* joined by ','.
HeaderText(h) == IF h.t = "array" THEN Join(h.a, Ch(",")) ELSE h.s

ExpectedClientIp(h, addr) ==
    IF h.t = "absent" THEN StrVal(AddressOrEmpty(addr))
    ELSE StrVal(Trim(Split(HeaderText(h), Ch(","))[1]))

ExpectedProxyIp(h, addr) ==
    IF h.t = "absent" THEN StrVal(<<>>) ELSE StrVal(AddressOrEmpty(addr))

\* C11: with an x-forwarded-for header present (a string or a string array,
\* empty or not) getClientIp() returns its first comma-separated entry,
\* trimmed, and getProxyIp() the remote address or ''; with the header absent
\* getClientIp() returns the remote address or '' and getProxyIp() ''.
\* Neither call throws.
C11_IpsAsSpecified ==
    /\ clientIp # NoVal =>
          clientIp = ExpectedClientIp(forwardedFor, remoteAddress)
    /\ proxyIp # NoVal =>
          proxyIp = ExpectedProxyIp(forwardedFor, remoteAddress)

\* What does hold: getProxyIp() never throws, and both calls are as stated
\* when the header is absent or a non-empty string.
C11_StringHeader ==
    /\ proxyIp # Thrown
    /\ (forwardedFor.t = "absent"
          \/ (forwardedFor.t = "string" /\ forwardedFor.s # <<>>))
        => C11_IpsAsSpecified

====
